---- MODULE Spec2Model ----
(***************************************************************************)
(* Model of jira-campaign-tool/campaign_updates.py: the pipeline of main   *)
(* (load_config, find_latest_jira_export, read_jira_export,                *)
(* process_campaigns, create_formatted_workbook, viewer launch) over a     *)
(* bounded family of Jira exports.                                         *)
(*                                                                         *)
(* Text is a sequence of one-character strings, so that lower(), title(),  *)
(* replace() and the substring test are computed and not assumed.          *)
(* A cell value is Str(text), Num(n) or NaN (an empty cell, as pandas      *)
(* reads it).                                                              *)
(***************************************************************************)
EXTENDS Integers, Sequences, FiniteSets, TLC

\* ---------------------------------------------------------------- bounds
MaxRows == 3
MaxClock == 1
SecondsPerDay == 2

\* ------------------------------------------------------------------ text
UpperChars == <<"A","B","C","D","E","F","G","H","I","J","K","L","M",
                "N","O","P","Q","R","S","T","U","V","W","X","Y","Z">>

LowerChars == <<"a","b","c","d","e","f","g","h","i","j","k","l","m",
                "n","o","p","q","r","s","t","u","v","w","x","y","z">>

DigitChars == <<"0","1","2","3","4","5","6","7","8","9">>

\* code-point order of the characters the exports use (an ASCII excerpt)
CodePoints == <<" ", "-", ".", ":", "_">> \o DigitChars \o UpperChars \o LowerChars

IndexIn(c, seq) == CHOOSE i \in 1..Len(seq) : seq[i] = c

IsIn(c, seq) == \E i \in 1..Len(seq) : seq[i] = c

IsUpperChar(c) == IsIn(c, UpperChars)

IsLowerChar(c) == IsIn(c, LowerChars)

IsCased(c) == IsUpperChar(c) \/ IsLowerChar(c)

LowerChar(c) == IF IsUpperChar(c) THEN LowerChars[IndexIn(c, UpperChars)] ELSE c

UpperChar(c) == IF IsLowerChar(c) THEN UpperChars[IndexIn(c, LowerChars)] ELSE c

\* str.lower()
Lower(s) == [i \in 1..Len(s) |-> LowerChar(s[i])]

\* str.replace("_", " ")
ReplaceUnderscore(s) == [i \in 1..Len(s) |-> IF s[i] = "_" THEN " " ELSE s[i]]

\* str.title(): a cased character is upper-cased after an uncased one (or at
\* the start) and lower-cased after a cased one
Title(s) ==
    [i \in 1..Len(s) |->
        IF i = 1 \/ ~IsCased(s[i-1]) THEN UpperChar(s[i]) ELSE LowerChar(s[i])]

\* Python's  sub in s
Contains(sub, s) ==
    \E i \in 0..(Len(s) - Len(sub)) : SubSeq(s, i + 1, i + Len(sub)) = sub

Ord(c) == IndexIn(c, CodePoints)

\* Python's  a < b  on str
RECURSIVE TextLess(_, _)
TextLess(a, b) ==
    IF b = <<>> THEN FALSE
    ELSE IF a = <<>> THEN TRUE
    ELSE IF Head(a) = Head(b) THEN TextLess(Tail(a), Tail(b))
    ELSE Ord(Head(a)) < Ord(Head(b))

\* str(n) of a non-negative integer
RECURSIVE StrOfNat(_)
StrOfNat(n) ==
    IF n < 10 THEN <<DigitChars[n + 1]>>
    ELSE StrOfNat(n \div 10) \o <<DigitChars[(n % 10) + 1]>>

\* ---------------------------------------------------------------- values
Str(s) == [k |-> "str", s |-> s]

Num(n) == [k |-> "num", n |-> n]

NaN == [k |-> "nan"]

\* a cell of the Summary sheet that holds a literal of the program
Lbl(t) == [k |-> "lbl", t |-> t]

IsStr(v) == v.k = "str"

IsNum(v) == v.k = "num"

IsNaN(v) == v.k = "nan"

\* str(value)
StrOf(v) ==
    IF IsStr(v) THEN v.s
    ELSE IF IsNum(v) THEN StrOfNat(v.n)
    ELSE <<"n","a","n">>

\* bool(value): a non-empty str, a non-zero number; float nan is truthy
Truthy(v) ==
    IF IsStr(v) THEN v.s # <<>>
    ELSE IF IsNum(v) THEN v.n # 0
    ELSE TRUE

\* --------------------------------------------- literals of the program
kIssueType == <<"i","s","s","u","e"," ","t","y","p","e">>

kIssuetype == <<"i","s","s","u","e","t","y","p","e">>

kType == <<"t","y","p","e">>

kCampaign == <<"c","a","m","p","a","i","g","n">>

kStatus == <<"s","t","a","t","u","s">>

kDate == <<"d","a","t","e">>

kCreated == <<"c","r","e","a","t","e","d">>

kProjectId == <<"p","r","o","j","e","c","t"," ","i","d">>

kProjectUrl == <<"p","r","o","j","e","c","t"," ","u","r","l">>

kDone == <<"d","o","n","e">>

kInProgress == <<"i","n"," ","p","r","o","g","r","e","s","s">>

kTodo == <<"t","o","d","o">>

kBlocked == <<"b","l","o","c","k","e","d">>

\* the aliases tried by process_campaigns, in order
IssueTypeAliases == <<kIssueType, kIssuetype, kType>>

\* the dict status_colors, in insertion order
status_colors ==
    << [key |-> kDone,       color |-> "C6EFCE"],
       [key |-> kInProgress, color |-> "FFF2CC"],
       [key |-> kTodo,       color |-> "FCE4D6"],
       [key |-> kBlocked,    color |-> "F8CBAD"] >>

NoFill == "none"

\* ------------------------------------------------ the exports considered
nIssueType == <<"I","s","s","u","e"," ","T","y","p","e">>

nTypeLower == <<"t","y","p","e">>

nTypeUpper == <<"T","Y","P","E">>

nStatus == <<"S","t","a","t","u","s">>

nSubStatus == <<"s","u","b","_","s","t","a","t","u","s">>

nDueDate == <<"d","u","e","_","d","a","t","e">>

nDueDateSpaced == <<"D","u","e"," ","d","a","t","e">>

nCreated == <<"C","r","e","a","t","e","d">>

nProjectId == <<"P","r","o","j","e","c","t"," ","I","D">>

nKey == <<"K","e","y">>

vCampaign == Str(<<"C","a","m","p","a","i","g","n">>)

vCampaignUpper == Str(<<"C","A","M","P","A","I","G","N">>)

vCampaigns == Str(<<"c","a","m","p","a","i","g","n","s">>)

vBug == Str(<<"B","u","g">>)

vDone == Str(<<"D","o","n","e">>)

vTodo == Str(<<"T","o","d","o">>)

vInProgressQA ==
    Str(<<"I","n"," ","P","r","o","g","r","e","s","s"," ","-"," ",
          "Q","A"," ","R","e","v","i","e","w">>)

vCancelled == Str(<<"C","a","n","c","e","l","l","e","d">>)

vBlockedTodo == Str(<<"B","l","o","c","k","e","d",":"," ","t","o","d","o">>)

vK1 == Str(<<"K","1">>)

vDayA == Str(<<"2","0","2","4","-","0","1">>)

vDayB == Str(<<"2","0","2","3","-","1","2">>)

\* A layout: the column labels of an export and the rows its lines are drawn from.
Layout(columns, pool) == [columns |-> columns, pool |-> pool]

Layouts ==
    { Layout(<<nStatus>>, {<<vDone>>, <<vTodo>>, <<NaN>>}),
      Layout(<<nStatus, nKey>>,
             {<<vInProgressQA, vK1>>, <<vBlockedTodo, vK1>>, <<vCancelled, vK1>>}),
      Layout(<<nKey, nStatus>>, {<<vK1, vDone>>, <<vK1, vCancelled>>}),
      Layout(<<nKey, nStatus, nCreated>>, {<<vK1, vDone, Num(1)>>, <<vK1, NaN, Num(1)>>}),
      Layout(<<nSubStatus, nKey>>, {<<vTodo, vK1>>, <<Num(0), vK1>>}),
      Layout(<<nIssueType, nKey>>, {<<vCampaign, vK1>>, <<vCampaigns, vK1>>, <<NaN, vK1>>}),
      Layout(<<nTypeLower, nIssueType>>,
             {<<vCampaignUpper, vCampaign>>, <<vCampaignUpper, vBug>>, <<vCampaignUpper, Num(7)>>}),
      Layout(<<nTypeUpper, nTypeLower>>, {<<vCampaign, vCampaignUpper>>, <<vCampaign, vBug>>}),
      Layout(<<nIssueType, nStatus>>,
             {<<vCampaign, vDone>>, <<vCampaign, vInProgressQA>>, <<vBug, vDone>>}),
      Layout(<<nDueDate, nKey>>, {<<Num(1), vK1>>, <<Num(2), vK1>>, <<vDayA, vK1>>}),
      Layout(<<nCreated, nDueDate>>,
             {<<vDayA, Num(1)>>, <<vDayB, Num(2)>>, <<NaN, Num(2)>>}),
      Layout(<<nDueDate, nDueDateSpaced>>, {<<Num(2), Num(1)>>, <<Num(1), Num(1)>>}),
      Layout(<<nProjectId>>, {<<Num(1)>>}),
      Layout(<<nProjectId, nKey>>, {<<Num(1), vK1>>}) }

\* A DataFrame: the column labels in order and the rows in order.
DataFrame(columns, rows) == [columns |-> columns, rows |-> rows]

Exports ==
    UNION { { DataFrame(layout.columns, rows) :
                rows \in UNION { [1..n -> layout.pool] : n \in 0..MaxRows } } :
            layout \in Layouts }

NRows(df) == Len(df.rows)

NCols(df) == Len(df.columns)

\* df[col] for the column at position c
Column(df, c) == [r \in 1..NRows(df) |-> df.rows[r][c]]

Max(S) == CHOOSE x \in S : \A y \in S : y <= x

Min(S) == CHOOSE x \in S : \A y \in S : x <= y

\* ---------------------------------------------------- process_campaigns
\* df_cols = {col.lower(): col for col in df.columns}, as the position of the
\* column a lowered name maps to: a later column replaces an earlier one with
\* the same lowered name; 0 when the key is absent
df_cols(df, key) ==
    LET hits == {i \in 1..NCols(df) : Lower(df.columns[i]) = key}
    IN  IF hits = {} THEN 0 ELSE Max(hits)

\* the loop over ["issue type", "issuetype", "type"] with its break
RECURSIVE FindIssueTypeCol(_, _)
FindIssueTypeCol(df, k) ==
    IF k > Len(IssueTypeAliases) THEN 0
    ELSE IF df_cols(df, IssueTypeAliases[k]) # 0 THEN df_cols(df, IssueTypeAliases[k])
    ELSE FindIssueTypeCol(df, k + 1)

issue_type_col(df) == FindIssueTypeCol(df, 1)

\* pandas gives a column the object dtype when it holds text (or has no rows);
\* a column of numbers or of empty cells only is numeric and has no .str
HasStrAccessor(df, c) ==
    NRows(df) = 0 \/ \E r \in 1..NRows(df) : IsStr(df.rows[r][c])

\* df[col].str.lower() == "campaign", for one cell (a non-text cell gives NaN,
\* which compares unequal)
IsCampaignMutant(v) == IsStr(v) /\ v.s = kCampaign

IsCampaign(v) == IsStr(v) /\ Lower(v.s) = kCampaign

process_campaigns(df) ==
    LET c == issue_type_col(df)
        keep(r) == IsCampaign(r[c])
    IN  IF c = 0
        THEN [raised |-> FALSE, campaigns_df |-> df, all_df |-> df]
        ELSE IF ~HasStrAccessor(df, c)
        THEN [raised |-> TRUE, campaigns_df |-> DataFrame(<<>>, <<>>), all_df |-> df]
        ELSE [raised |-> FALSE,
              campaigns_df |-> DataFrame(df.columns, SelectSeq(df.rows, keep)),
              all_df |-> df]

\* ------------------------------------------------- Series.value_counts
\* the distinct non-missing values in order of first occurrence
RECURSIVE Uniques(_)
Uniques(s) ==
    IF s = <<>> THEN <<>>
    ELSE LET front == Uniques(SubSeq(s, 1, Len(s) - 1))
             x == s[Len(s)]
         IN  IF IsNaN(x) \/ \E i \in 1..Len(front) : front[i] = x
             THEN front ELSE Append(front, x)

CountOf(s, v) == Cardinality({i \in 1..Len(s) : s[i] = v})

\* insert e behind every entry whose count is at least e's
InsertByCountMutant(sorted, e) ==
    LET before == {i \in 1..Len(sorted) : sorted[i].count > e.count}
        n == IF before = {} THEN 0 ELSE Max(before)
    IN  SubSeq(sorted, 1, n) \o <<e>> \o SubSeq(sorted, n + 1, Len(sorted))

InsertByCount(sorted, e) ==
    LET before == {i \in 1..Len(sorted) : sorted[i].count >= e.count}
        n == IF before = {} THEN 0 ELSE Max(before)
    IN  SubSeq(sorted, 1, n) \o <<e>> \o SubSeq(sorted, n + 1, Len(sorted))

RECURSIVE SortByCount(_)
SortByCount(entries) ==
    IF entries = <<>> THEN <<>>
    ELSE InsertByCount(SortByCount(SubSeq(entries, 1, Len(entries) - 1)),
                       entries[Len(entries)])

\* value_counts(): missing values dropped, descending count, equal counts in
\* the order of first occurrence
value_counts(s) ==
    LET keys == Uniques(s)
    IN  SortByCount([i \in 1..Len(keys) |->
                        [status |-> keys[i], count |-> CountOf(s, keys[i])]])

\* ------------------------------------------- openpyxl helpers, add_autofilter
\* openpyxl.utils.get_column_letter, for 1 <= n <= 18278
RECURSIVE get_column_letter(_)
get_column_letter(n) ==
    IF n = 0 THEN <<>>
    ELSE get_column_letter((n - 1) \div 26) \o <<UpperChars[((n - 1) % 26) + 1]>>

\* worksheet.auto_filter.ref: unset, or "A1:<col><row>"
NoRef == [set |-> FALSE]

Ref(col, row) == [set |-> TRUE, first |-> "A1", col |-> col, row |-> row]

\* get_column_letter raises ValueError outside 1..18278
AutofilterRaises(df) == NRows(df) # 0 /\ NCols(df) = 0

add_autofilter_Mutant(df) ==
    IF NRows(df) = 0 THEN NoRef
    ELSE Ref(get_column_letter(NCols(df)), NRows(df))

add_autofilter(df) ==
    IF NRows(df) = 0 THEN NoRef
    ELSE Ref(get_column_letter(NCols(df)), NRows(df) + 1)

\* Workbook.create_sheet(title, index): list.insert at index
create_sheet(sheets, ws, index) ==
    LET at == IF index > Len(sheets) THEN Len(sheets) ELSE index
    IN  SubSeq(sheets, 1, at) \o <<ws>> \o SubSeq(sheets, at + 1, Len(sheets))

Sheet(title, header, rows, fills, freeze, filter) ==
    [title |-> title, header |-> header, rows |-> rows, fills |-> fills,
     freeze_panes |-> freeze, auto_filter |-> filter]

\* ------------------------------------------- create_formatted_workbook
\* datetime.now().strftime("%Y-%m-%d %H:%M:%S")
StrftimeSeconds(now) ==
    [k |-> "time", date |-> now \div SecondsPerDay, tod |-> now % SecondsPerDay]

\* datetime.now().strftime("%Y-%m-%d")
StrftimeDate(now) == now \div SecondsPerDay

\* next(col for col in campaigns_df.columns if col.lower() == "status"), 0 if none
status_col(df) ==
    LET hits == {i \in 1..NCols(df) : Lower(df.columns[i]) = kStatus}
    IN  IF hits = {} THEN 0 ELSE Min(hits)

\* the report title stamped with the time of the run
summary_data_Mutant(campaigns_df, all_df, now) ==
    << <<Lbl("Campaign Update Report"), StrftimeSeconds(now)>>,
       <<Lbl("Generated"), StrftimeSeconds(now)>>,
       <<Lbl(""), Lbl("")>>,
       <<Lbl("Total Campaigns"), Num(NRows(campaigns_df))>>,
       <<Lbl("Total Tickets"), Num(NRows(all_df))>> >>
    \o
    ( IF status_col(campaigns_df) = 0 THEN <<>>
      ELSE LET status_counts == value_counts(Column(campaigns_df, status_col(campaigns_df)))
           IN  << <<Lbl(""), Lbl("")>>, <<Lbl("Campaign Status Breakdown"), Lbl("")>> >>
               \o [i \in 1..Len(status_counts) |->
                     <<status_counts[i].status, Num(status_counts[i].count)>>] )

summary_data(campaigns_df, all_df, now) ==
    << <<Lbl("Campaign Update Report"), Lbl("")>>,
       <<Lbl("Generated"), StrftimeSeconds(now)>>,
       <<Lbl(""), Lbl("")>>,
       <<Lbl("Total Campaigns"), Num(NRows(campaigns_df))>>,
       <<Lbl("Total Tickets"), Num(NRows(all_df))>> >>
    \o
    ( IF status_col(campaigns_df) = 0 THEN <<>>
      ELSE LET status_counts == value_counts(Column(campaigns_df, status_col(campaigns_df)))
           IN  << <<Lbl(""), Lbl("")>>, <<Lbl("Campaign Status Breakdown"), Lbl("")>> >>
               \o [i \in 1..Len(status_counts) |->
                     <<status_counts[i].status, Num(status_counts[i].count)>>] )

\* the positions of a sequence that satisfy a test, in order
RECURSIVE PositionsUpTo(_, _)
PositionsUpTo(keep, n) ==
    IF n = 0 THEN <<>>
    ELSE IF keep[n] THEN Append(PositionsUpTo(keep, n - 1), n)
    ELSE PositionsUpTo(keep, n - 1)

\* relevant_fields: every column but "project id" and "project url"
relevant_fields(df) ==
    PositionsUpTo([i \in 1..NCols(df) |->
                      Lower(df.columns[i]) \notin {kProjectId, kProjectUrl}],
                  NCols(df))

\* df[fields]
Project(df, fields) ==
    DataFrame([j \in 1..Len(fields) |-> df.columns[fields[j]]],
              [r \in 1..NRows(df) |-> [j \in 1..Len(fields) |-> df.rows[r][fields[j]]]])

\* col.replace("_", " ").title()
DisplayName(col) == Title(ReplaceUnderscore(col))

\* df.rename(columns=column_mapping)
Rename(df) == DataFrame([i \in 1..NCols(df) |-> DisplayName(df.columns[i])], df.rows)

\* the loop without its break: the last matching key wins
RECURSIVE FirstColorMutant(_, _)
FirstColorMutant(status_key, k) ==
    IF k > Len(status_colors) THEN NoFill
    ELSE LET rest == FirstColorMutant(status_key, k + 1)
         IN  IF rest # NoFill THEN rest
             ELSE IF Contains(status_colors[k].key, status_key) THEN status_colors[k].color
             ELSE NoFill

\* the loop over status_colors.items() with its break
RECURSIVE FirstColor(_, _)
FirstColor(status_key, k) ==
    IF k > Len(status_colors) THEN NoFill
    ELSE IF Contains(status_colors[k].key, status_key) THEN status_colors[k].color
    ELSE FirstColor(status_key, k + 1)

\* status_key = str(value).lower() if value else ""
StatusKey(v) == IF Truthy(v) THEN Lower(StrOf(v)) ELSE <<>>

StatusFill(v) == FirstColor(StatusKey(v), 1)

\* the guard before "Apply status colors"
GetsStatusColor(display_df, col_idx, rowlen) ==
    col_idx < rowlen /\ Contains(kStatus, Lower(display_df.columns[col_idx]))

DetailFills(display_df) ==
    [r \in 1..NRows(display_df) |->
        [c \in 1..NCols(display_df) |->
            IF GetsStatusColor(display_df, c, Len(display_df.rows[r]))
            THEN StatusFill(display_df.rows[r][c]) ELSE NoFill]]

NoFills(df) == [r \in 1..NRows(df) |-> [c \in 1..NCols(df) |-> NoFill]]

\* date_columns, as positions among the renamed columns
IsDateLikeMutant(name) == Contains(kDate, Lower(name))

IsDateLike(name) == Contains(kDate, Lower(name)) \/ Contains(kCreated, Lower(name))

date_columns(display_df) ==
    PositionsUpTo([i \in 1..NCols(display_df) |-> IsDateLike(display_df.columns[i])],
                  NCols(display_df))

\* Python's  a < b  between two cells of one kind
ValueLess(a, b) == IF IsNum(a) THEN a.n < b.n ELSE TextLess(a.s, b.s)

\* sort_values raises on a label that is not unique, and on values that
\* cannot be compared (text against a number)
SortRaises(df, c) ==
    \/ \E j \in 1..NCols(df) : j # c /\ df.columns[j] = df.columns[c]
    \/ \E r1, r2 \in 1..NRows(df) : IsStr(df.rows[r1][c]) /\ IsNum(df.rows[r2][c])

\* insert row behind every row that is not greater
InsertRow(sorted, row, c) ==
    LET before == {i \in 1..Len(sorted) : ~ValueLess(row[c], sorted[i][c])}
        n == IF before = {} THEN 0 ELSE Max(before)
    IN  SubSeq(sorted, 1, n) \o <<row>> \o SubSeq(sorted, n + 1, Len(sorted))

RECURSIVE SortRows(_, _)
SortRows(rows, c) ==
    IF rows = <<>> THEN <<>>
    ELSE InsertRow(SortRows(SubSeq(rows, 1, Len(rows) - 1), c), rows[Len(rows)], c)

\* DataFrame.sort_values(label): ascending, missing values last
sort_values(df, c) ==
    LET present(r) == ~IsNaN(r[c])
        missing(r) == IsNaN(r[c])
    IN  DataFrame(df.columns,
                  SortRows(SelectSeq(df.rows, present), c) \o SelectSeq(df.rows, missing))

\* the try/except around sort_values
timeline_df_Mutant(display_df) == display_df

timeline_df(display_df) ==
    LET c == date_columns(display_df)[1]
    IN  IF SortRaises(display_df, c) THEN display_df ELSE sort_values(display_df, c)

DetailsTitle == "Campaign Details"

\* The workbook create_formatted_workbook assembles, up to the save;
\* raised: an exception leaves the function before the save.
create_formatted_workbook(campaigns_df, all_df, now) ==
    LET ws_summary == Sheet("Summary", <<>>, summary_data(campaigns_df, all_df, now),
                            <<>>, "none", NoRef)
        raw_display == Rename(Project(all_df, relevant_fields(all_df)))
        display_df == Rename(campaigns_df)
        s1 == create_sheet(<<>>, ws_summary, 0)
        s2 == create_sheet(s1,
                  Sheet("Raw Data", raw_display.columns, raw_display.rows,
                        NoFills(raw_display), "A2", add_autofilter(raw_display)), 1)
        s3 == create_sheet(s2,
                  Sheet(DetailsTitle, display_df.columns, display_df.rows,
                        DetailFills(display_df), "A2", add_autofilter(display_df)), 2)
        tl == timeline_df(display_df)
        s4 == create_sheet(s3,
                  Sheet("Timeline", tl.columns, tl.rows, NoFills(tl), "A2",
                        add_autofilter(tl)), 3)
    IN  IF AutofilterRaises(raw_display) \/ AutofilterRaises(display_df)
        THEN [raised |-> TRUE, sheets |-> <<>>]
        ELSE [raised |-> FALSE,
              sheets |-> IF date_columns(display_df) # <<>> THEN s4 ELSE s3]

\* --------------------------------------------------------------- config
\* A configuration document: whether it has output_settings.output_folder,
\* and that folder as path components.
Config(has_folder, folder) == [has_folder |-> has_folder, output_folder |-> folder]

\* the template load_config writes when the file does not exist
TemplateConfig == Config(TRUE, <<".", "reports">>)

CustomConfig == Config(TRUE, <<"out">>)

BareConfig == Config(FALSE, <<>>)

\* the states of campaign_definitions.json on disk
ConfigFiles ==
    { [state |-> "missing"], [state |-> "malformed"],
      [state |-> "valid", content |-> CustomConfig],
      [state |-> "valid", content |-> BareConfig] }

\* config.get("output_settings", {}).get("output_folder", "reports")
output_folder_setting(config) ==
    IF config.has_folder THEN config.output_folder ELSE <<"reports">>

\* script_dir / folder: pathlib drops the "." components
PathJoin(parts) == LET real(x) == x # "." IN SelectSeq(parts, real)

OutputFile(config, now) ==
    [parent |-> PathJoin(output_folder_setting(config)), date |-> StrftimeDate(now)]

\* ------------------------------------------------------------- the state
VARIABLES
    export,        \* the Jira export in Downloads, as pandas would read it
    config_file,   \* campaign_definitions.json on disk
    disk,          \* directories created and report files written
    clock,         \* the wall clock, in seconds
    pc,            \* the position of main
    config,        \* main's config
    all_df,        \* main's all_df
    campaigns_df,  \* main's campaigns_df
    wb,            \* the sheets of the workbook this run has saved
    output_file,   \* main's output_file
    outcome,       \* how the run has ended, if it has
    viewer,        \* what the viewer launch did
    run,           \* the number of the run
    prev           \* what the previous run left behind

vars == <<export, config_file, disk, clock, pc, config, all_df, campaigns_df,
          wb, output_file, outcome, viewer, run, prev>>

Unset == [unset |-> TRUE]

Running == [kind |-> "running"]

\* sys.exit(code) after an [ERROR] / [WARN] message, or an uncaught exception
\* (a traceback, exit status 1)
Fatal(reason) == [kind |-> "fatal", exit |-> 1, reason |-> reason]

NoOp == [kind |-> "noop", exit |-> 0, reason |-> "No campaigns found in export"]

Uncaught(exc) == [kind |-> "uncaught", exit |-> 1, reason |-> exc]

Success(path) == [kind |-> "success", exit |-> 0, path |-> path]

EmptyDisk == [dirs |-> {}, files |-> {}]

RunStart ==
    /\ pc = "load_config"
    /\ config = Unset
    /\ all_df = Unset
    /\ campaigns_df = Unset
    /\ wb = <<>>
    /\ output_file = Unset
    /\ outcome = Running
    /\ viewer = "not launched"

Init ==
    /\ export \in Exports
    /\ config_file \in ConfigFiles
    /\ disk = EmptyDisk
    /\ clock = 0
    /\ run = 1
    /\ prev = Unset
    /\ RunStart

\* ------------------------------------------------------------ load_config
LoadConfig ==
    /\ pc = "load_config"
    /\ \/ /\ config_file.state = "missing"
          /\ config_file' = [state |-> "valid", content |-> TemplateConfig]
          /\ config' = TemplateConfig
          /\ pc' = "find_export"
          /\ UNCHANGED outcome
       \/ /\ config_file.state = "valid"
          /\ config' = config_file.content
          /\ pc' = "find_export"
          /\ UNCHANGED <<config_file, outcome>>
       \/ /\ config_file.state = "malformed"
          /\ outcome' = Fatal("Error parsing config file")
          /\ pc' = "done"
          /\ UNCHANGED <<config_file, config>>
    /\ UNCHANGED <<export, disk, clock, all_df, campaigns_df, wb, output_file,
                   viewer, run, prev>>

\* -------------------------------------------------- find_latest_jira_export
\* The Downloads folder holds no file named *jira*, or the latest one was last
\* modified before today, or it is today's.
FindLatestJiraExport ==
    /\ pc = "find_export"
    /\ \E found \in {"none", "stale", "fresh"} :
        \/ /\ found = "none"
           /\ outcome' = Fatal("No Jira export file found in Downloads folder")
           /\ pc' = "done"
        \/ /\ found = "stale"
           /\ outcome' = Fatal("Jira export file is stale")
           /\ pc' = "done"
        \/ /\ found = "fresh"
           /\ pc' = "read_export"
           /\ UNCHANGED outcome
    /\ UNCHANGED <<export, config_file, disk, clock, config, all_df, campaigns_df,
                   wb, output_file, viewer, run, prev>>

\* ---------------------------------------------------------- read_jira_export
ReadJiraExport ==
    /\ pc = "read_export"
    /\ \E readable \in BOOLEAN :
        IF readable
        THEN /\ all_df' = export
             /\ pc' = "process"
             /\ UNCHANGED outcome
        ELSE /\ outcome' = Fatal("Error reading file")
             /\ pc' = "done"
             /\ UNCHANGED all_df
    /\ UNCHANGED <<export, config_file, disk, clock, config, campaigns_df, wb,
                   output_file, viewer, run, prev>>

\* ------------------------------- main: process_campaigns and the empty check
\* len(campaigns_df) == 0
IsEmptyMutant(df) == NRows(df) < 0

IsEmpty(df) == NRows(df) = 0

ProcessCampaigns ==
    /\ pc = "process"
    /\ LET res == process_campaigns(all_df)
       IN  IF res.raised
           THEN /\ outcome' = Uncaught("AttributeError")
                /\ pc' = "done"
                /\ UNCHANGED <<campaigns_df, all_df>>
           ELSE /\ campaigns_df' = res.campaigns_df
                /\ all_df' = res.all_df
                /\ IF IsEmpty(res.campaigns_df)
                   THEN outcome' = NoOp /\ pc' = "done"
                   ELSE pc' = "build" /\ UNCHANGED outcome
    /\ UNCHANGED <<export, config_file, disk, clock, config, wb, output_file,
                   viewer, run, prev>>

\* ------------------------- main: output_file and create_formatted_workbook
\* output_path.parent.mkdir(parents=True, exist_ok=True); wb.save(output_path)
Mkdir(d, path) == [d EXCEPT !.dirs = @ \cup {path.parent}]

Save(d, path) == [d EXCEPT !.files = @ \cup {path}]

\* create_formatted_workbook from the assembly to the save: the clock is read
\* for the file name (t1) and then for the Generated cell (t2)
BuildAndSave(next_pc) ==
    \E t1 \in clock..MaxClock : \E t2 \in t1..MaxClock : \E writable \in BOOLEAN :
        LET path == OutputFile(config, t1)
            res == create_formatted_workbook(campaigns_df, all_df, t2)
        IN  /\ clock' = t2
            /\ output_file' = path
            /\ IF res.raised
               THEN /\ outcome' = Uncaught("ValueError")
                    /\ pc' = "done"
                    /\ UNCHANGED <<wb, disk>>
               ELSE IF ~writable
               THEN /\ outcome' = Uncaught("OSError")
                    /\ pc' = "done"
                    /\ disk' \in {disk, Mkdir(disk, path)}
                    /\ UNCHANGED wb
               ELSE /\ wb' = res.sheets
                    /\ disk' = Save(Mkdir(disk, path), path)
                    /\ outcome' = Success(path)
                    /\ pc' = next_pc

CreateFormattedWorkbook ==
    /\ pc = "build"
    /\ BuildAndSave("open_viewer")
    /\ UNCHANGED <<export, config_file, config, all_df, campaigns_df, viewer,
                   run, prev>>

\* --------------------------------------------------- main: the viewer launch
\* os.startfile raises and is caught; os.system returns a status nobody reads
OpenViewer ==
    /\ pc = "open_viewer"
    /\ viewer' \in {"opened", "failed"}
    /\ pc' = "done"
    /\ UNCHANGED <<export, config_file, disk, clock, config, all_df, campaigns_df,
                   wb, output_file, outcome, run, prev>>

\* ------------------------------------------ the operator runs the tool again
\* over the same export and the same configuration file
RunAgain ==
    /\ pc = "done"
    /\ outcome.kind = "success"
    /\ run = 1
    /\ run' = run + 1
    /\ prev' = [outcome |-> outcome, wb |-> wb]
    /\ pc' = "load_config"
    /\ config' = Unset
    /\ all_df' = Unset
    /\ campaigns_df' = Unset
    /\ wb' = <<>>
    /\ output_file' = Unset
    /\ outcome' = Running
    /\ viewer' = "not launched"
    /\ UNCHANGED <<export, config_file, disk, clock>>

Next ==
    \/ LoadConfig
    \/ FindLatestJiraExport
    \/ ReadJiraExport
    \/ ProcessCampaigns
    \/ CreateFormattedWorkbook
    \/ OpenViewer

\* one run of main
Spec == Init /\ [][Next]_vars

NextTwice ==
    \/ LoadConfig
    \/ FindLatestJiraExport
    \/ ReadJiraExport
    \/ ProcessCampaigns
    \/ CreateFormattedWorkbook
    \/ OpenViewer
    \/ RunAgain

\* a run of main and, after a report was saved, a second run
SpecTwice == Init /\ [][NextTwice]_vars

\* ---------------- process_campaigns and create_formatted_workbook called
\* one after the other by a caller that does not test for an empty result
InitBuild ==
    /\ export \in Exports
    /\ config_file = [state |-> "valid", content |-> CustomConfig]
    /\ disk = EmptyDisk
    /\ clock = 0
    /\ run = 1
    /\ prev = Unset
    /\ pc = "call_process"
    /\ config = CustomConfig
    /\ all_df = export
    /\ campaigns_df = Unset
    /\ wb = <<>>
    /\ output_file = Unset
    /\ outcome = Running
    /\ viewer = "not launched"

CallProcessCampaigns ==
    /\ pc = "call_process"
    /\ LET res == process_campaigns(all_df)
       IN  IF res.raised
           THEN /\ outcome' = Uncaught("AttributeError")
                /\ pc' = "done"
                /\ UNCHANGED <<campaigns_df, all_df>>
           ELSE /\ campaigns_df' = res.campaigns_df
                /\ all_df' = res.all_df
                /\ pc' = "call_build"
                /\ UNCHANGED outcome
    /\ UNCHANGED <<export, config_file, disk, clock, config, wb, output_file,
                   viewer, run, prev>>

CallCreateFormattedWorkbook ==
    /\ pc = "call_build"
    /\ BuildAndSave("done")
    /\ UNCHANGED <<export, config_file, config, all_df, campaigns_df, viewer,
                   run, prev>>

NextBuild ==
    \/ CallProcessCampaigns
    \/ CallCreateFormattedWorkbook

SpecBuild == InitBuild /\ [][NextBuild]_vars

\* =============================================================== claims
Range(f) == {f[i] : i \in DOMAIN f}

Saved == wb # <<>>

SummarySheet == wb[1]

RawSheet == wb[2]

DetailsSheet == wb[3]

\* the positions of the columns of a frame that carry an issue-type alias
AliasColumns(df) ==
    {i \in 1..NCols(df) : Lower(df.columns[i]) \in {kIssueType, kIssuetype, kType}}

RowsWithCampaignIn(df, c) ==
    LET isCampaignRow(r) == IsStr(r[c]) /\ Lower(r[c].s) = kCampaign
    IN  SelectSeq(df.rows, isCampaignRow)

\* C1: once process_campaigns has returned, the relevant subset has the
\* columns of the Dataset and, if the Dataset has an issue-type-like column,
\* exactly the rows (in the Dataset's order) whose lowercased value in that
\* column is "campaign"; with no such column it is the whole Dataset.
C1_RelevantSubset ==
    campaigns_df # Unset =>
        /\ all_df = export
        /\ campaigns_df.columns = all_df.columns
        /\ IF AliasColumns(all_df) = {}
           THEN campaigns_df.rows = all_df.rows
           ELSE \E c \in AliasColumns(all_df) :
                    campaigns_df.rows = RowsWithCampaignIn(all_df, c)

C1_Witness ==
    /\ campaigns_df # Unset
    /\ AliasColumns(all_df) # {}
    /\ NRows(campaigns_df) > 0
    /\ NRows(campaigns_df) < NRows(all_df)
    /\ \E r \in 1..NRows(campaigns_df), c \in AliasColumns(all_df) :
            campaigns_df.rows[r][c] = vCampaignUpper

SheetTitles == [i \in 1..Len(wb) |-> wb[i].title]

\* a display-renamed column of the relevant subset contains "date" or "created"
HasDateLikeColumn ==
    \E i \in 1..NCols(campaigns_df) :
        LET shown == Lower(Title(ReplaceUnderscore(campaigns_df.columns[i])))
        IN  Contains(kDate, shown) \/ Contains(kCreated, shown)

TimelineIfDateLike == IF HasDateLikeColumn THEN <<"Timeline">> ELSE <<>>

\* C2 as stated: the sheets of a saved workbook are Summary, Raw Data,
\* Relevant Details, then Timeline iff a date-like column exists.
C2_AsStated ==
    Saved => SheetTitles = <<"Summary", "Raw Data", "Relevant Details">> \o TimelineIfDateLike

\* C2, amended: the sheets of a saved workbook are Summary, Raw Data,
\* Campaign Details, then Timeline iff a date-like column exists (3 sheets
\* otherwise).
C2_SheetOrder ==
    Saved => SheetTitles = <<"Summary", "Raw Data", "Campaign Details">> \o TimelineIfDateLike

C2_Witness ==
    /\ Saved
    /\ Len(wb) = 4
    /\ \E i \in 1..NCols(campaigns_df) : campaigns_df.columns[i] = nCreated

\* the keys in the order the claim gives them
DeclaredKeys == <<kDone, kInProgress, kTodo, kBlocked>>

ColorOfKey(key) == (CHOOSE e \in Range(status_colors) : e.key = key).color

\* the text of a cell, lowercased; an empty cell or a number has none
LoweredText(v) == IF IsStr(v) THEN Lower(v.s) ELSE <<>>

\* the fill of the earliest declared key that is a substring of the value
ExpectedFill(v) ==
    LET hits == {k \in 1..Len(DeclaredKeys) : Contains(DeclaredKeys[k], LoweredText(v))}
    IN  IF hits = {} THEN NoFill ELSE ColorOfKey(DeclaredKeys[Min(hits)])

\* the cells of Campaign Details for which the program chooses a status fill
StyledCells ==
    {rc \in (1..Len(DetailsSheet.rows)) \X (1..Len(DetailsSheet.header)) :
        /\ rc[2] < Len(DetailsSheet.header)
        /\ Contains(kStatus, Lower(DetailsSheet.header[rc[2]]))}

\* C3: where a status fill is chosen, the cell gets the fill of the first of
\* done, in progress, todo, blocked that is a substring of its lowercased
\* value, and no fill when none is ("In Progress - QA Review" gets the
\* in-progress fill; "Cancelled" and an empty cell get none).
C3_FirstKeyWins ==
    Saved =>
        \A rc \in StyledCells :
            LET v == DetailsSheet.rows[rc[1]][rc[2]]
                fill == DetailsSheet.fills[rc[1]][rc[2]]
            IN  /\ fill = ExpectedFill(v)
                /\ v = vInProgressQA => fill = "FFF2CC"
                /\ v \in {vCancelled, NaN} => fill = NoFill

C3_Witness ==
    /\ Saved
    /\ \E rc \in StyledCells :
          /\ DetailsSheet.rows[rc[1]][rc[2]] = vBlockedTodo
          /\ DetailsSheet.fills[rc[1]][rc[2]] = "FCE4D6"
    /\ \E rc \in StyledCells :
          /\ DetailsSheet.rows[rc[1]][rc[2]] = vInProgressQA
          /\ DetailsSheet.fills[rc[1]][rc[2]] = "FFF2CC"

\* C4: once process_campaigns has returned a relevant subset of zero rows,
\* the run has ended in the no-op outcome with exit status 0, no workbook
\* was saved, no output path was formed, and nothing was created on disk.
C4_EmptyIsNoOp ==
    (campaigns_df # Unset /\ NRows(campaigns_df) = 0) =>
        /\ pc = "done"
        /\ outcome.kind = "noop"
        /\ outcome.exit = 0
        /\ ~Saved
        /\ output_file = Unset
        /\ disk = EmptyDisk

C4_Witness ==
    /\ campaigns_df # Unset
    /\ NRows(campaigns_df) = 0
    /\ NRows(all_df) > 0
    /\ outcome = NoOp

\* the status column of the relevant subset, 0 if none
ClaimStatusColumn ==
    LET hits == {i \in 1..NCols(campaigns_df) : Lower(campaigns_df.columns[i]) = kStatus}
    IN  IF hits = {} THEN 0 ELSE Min(hits)

StatusValues == Column(campaigns_df, ClaimStatusColumn)

\* the rows of the Summary sheet below the "Campaign Status Breakdown" row
BreakdownRows == SubSeq(SummarySheet.rows, 8, Len(SummarySheet.rows))

FirstSeen(v) == Min({i \in 1..Len(StatusValues) : StatusValues[i] = v})

\* the breakdown lists each value of 'listed' once with its count, by
\* descending count, equal counts in first-seen order
BreakdownOf(listed) ==
    LET B == BreakdownRows
    IN  /\ SummarySheet.rows[7] = <<Lbl("Campaign Status Breakdown"), Lbl("")>>
        /\ \A v \in listed : Cardinality({i \in 1..Len(B) : B[i][1] = v}) = 1
        /\ \A i \in 1..Len(B) :
              /\ B[i][1] \in listed
              /\ B[i][2] = Num(Cardinality({j \in 1..Len(StatusValues) :
                                              StatusValues[j] = B[i][1]}))
        /\ \A i, j \in 1..Len(B) :
              i < j => \/ B[i][2].n > B[j][2].n
                       \/ /\ B[i][2].n = B[j][2].n
                          /\ FirstSeen(B[i][1]) < FirstSeen(B[j][1])

CellValues(sheets) ==
    [i \in 1..Len(sheets) |->
        [title |-> sheets[i].title, header |-> sheets[i].header, rows |-> sheets[i].rows]]

\* the same, with the value next to "Generated" blanked
WithoutGenerated(sheets) ==
    [CellValues(sheets) EXCEPT ![1].rows[2][2] = Lbl("")]

\* C6 as stated: a second run over the same export and configuration saves
\* a workbook with the same cell values in every sheet.
C6_AsStated ==
    (run = 2 /\ Saved) => CellValues(wb) = CellValues(prev.wb)

\* C6, amended: a second run over the same export and configuration saves a
\* workbook with the same sheets, columns and cell values, except for the
\* value next to "Generated" on the Summary sheet.
C6_SameButGenerated ==
    (run = 2 /\ Saved) =>
        /\ WithoutGenerated(wb) = WithoutGenerated(prev.wb)
        /\ wb[1].rows[2][1] = Lbl("Generated")

C6_Witness ==
    /\ run = 2
    /\ Saved
    /\ wb[1].rows[2][2] # prev.wb[1].rows[2][2]
    /\ Len(wb[3].rows) > 1

DataSheets == {i \in 1..Len(wb) : i >= 2}

\* "A1:<last column><data rows + 1>"
FullRange(ws) ==
    [set |-> TRUE, first |-> "A1", col |-> <<UpperChars[Len(ws.header)]>>,
     row |-> Len(ws.rows) + 1]

\* C7 as stated: every data sheet is frozen at A2 and filtered from A1 to
\* (last column, data rows + 1), also with zero data rows.
C7_AsStated ==
    Saved =>
        \A i \in DataSheets :
            /\ wb[i].freeze_panes = "A2"
            /\ wb[i].auto_filter.set
            /\ Len(wb[i].header) > 0 => wb[i].auto_filter = FullRange(wb[i])

\* C7, amended: every data sheet is frozen at A2; one with at least one
\* data row is filtered from A1 to (last column, data rows + 1), one with
\* zero data rows has no auto-filter range.
C7_FreezeAndFilter ==
    Saved =>
        \A i \in DataSheets :
            /\ wb[i].freeze_panes = "A2"
            /\ IF Len(wb[i].rows) = 0
               THEN ~wb[i].auto_filter.set
               ELSE wb[i].auto_filter = FullRange(wb[i])

C7_Witness ==
    /\ Saved
    /\ Len(RawSheet.rows) > 1
    /\ Len(DetailsSheet.rows) = 0
    /\ RawSheet.auto_filter.set

\* C8: a run that has ended has ended in success with the saved path
\* reported, in the no-op outcome with exit status 0, or in a fatal error
\* with its reason and exit status 1.
C8_ThreeOutcomes ==
    pc = "done" =>
        \/ outcome.kind = "success" /\ outcome.path \in disk.files
        \/ outcome.kind = "noop" /\ outcome.exit = 0
        \/ outcome.kind = "fatal" /\ outcome.exit = 1

\* C9: in Campaign Details every cell of a column whose display name
\* contains "status", at whatever position, has the fill the status color
\* map selects for its value, and every other cell has none.
C9_StatusColumnsFilled ==
    Saved =>
        \A r \in 1..Len(DetailsSheet.rows) : \A c \in 1..Len(DetailsSheet.header) :
            DetailsSheet.fills[r][c] =
                IF Contains(kStatus, Lower(DetailsSheet.header[c]))
                THEN ExpectedFill(DetailsSheet.rows[r][c])
                ELSE NoFill

TimelineSheet == wb[4]

\* the first date-like column of Campaign Details
FirstDateColumn ==
    Min({i \in 1..Len(DetailsSheet.header) :
            \/ Contains(kDate, Lower(DetailsSheet.header[i]))
            \/ Contains(kCreated, Lower(DetailsSheet.header[i]))})

SameMultiset(a, b) ==
    /\ Len(a) = Len(b)
    /\ \A x \in Range(a) \cup Range(b) :
          Cardinality({i \in 1..Len(a) : a[i] = x}) = Cardinality({i \in 1..Len(b) : b[i] = x})

\* text against a number among the values of the column
NotComparable(rows, c) ==
    \E i, j \in 1..Len(rows) : IsStr(rows[i][c]) /\ IsNum(rows[j][c])

LabelShared(header, c) == \E j \in 1..Len(header) : j # c /\ header[j] = header[c]

CellLessEq(a, b) ==
    IF IsNum(a) THEN a.n <= b.n ELSE ~TextLess(b.s, a.s)

\* ascending in column c, the empty cells last
Ascending(rows, c) ==
    \A i, j \in 1..Len(rows) :
        i < j => \/ IsNaN(rows[j][c])
                 \/ ~IsNaN(rows[i][c]) /\ CellLessEq(rows[i][c], rows[j][c])

TimelineIsDetails ==
    /\ TimelineSheet.header = DetailsSheet.header
    /\ SameMultiset(TimelineSheet.rows, DetailsSheet.rows)

\* C10 as stated: the Timeline rows are the Campaign Details rows sorted
\* ascending by the first date-like column, in the original order when the
\* values of that column are not comparable.
C10_AsStated ==
    (Saved /\ Len(wb) = 4) =>
        /\ TimelineIsDetails
        /\ IF NotComparable(DetailsSheet.rows, FirstDateColumn)
           THEN TimelineSheet.rows = DetailsSheet.rows
           ELSE Ascending(TimelineSheet.rows, FirstDateColumn)

\* C10, amended: the Timeline rows are the Campaign Details rows sorted
\* ascending by the first date-like column (empty cells last); when the sort
\* fails, because the values are not comparable or because another column
\* has the same display name, they are in the original order and the
\* workbook is saved all the same.
C10_TimelineSorted ==
    (Saved /\ Len(wb) = 4) =>
        /\ TimelineIsDetails
        /\ IF \/ NotComparable(DetailsSheet.rows, FirstDateColumn)
              \/ LabelShared(DetailsSheet.header, FirstDateColumn)
           THEN TimelineSheet.rows = DetailsSheet.rows
           ELSE Ascending(TimelineSheet.rows, FirstDateColumn)

C10_Witness ==
    /\ Saved
    /\ Len(wb) = 4
    /\ TimelineSheet.rows # DetailsSheet.rows
    /\ \E i \in 1..Len(TimelineSheet.rows) : IsNaN(TimelineSheet.rows[i][FirstDateColumn])
====
